---- MODULE Spec2Model ----
(***************************************************************************)
(* Discovery, reconciliation and enrichment of NotebookLM notebooks:       *)
(* scripts/discover_notebooks.py and scripts/get_titles.py.                *)
(*                                                                         *)
(* Text is a sequence of one-character strings.  The remote list is a      *)
(* sequence of rows, each row the sequence of the raw texts of its cells;  *)
(* row k opens the notebook whose address is UrlTab[k].                    *)
(***************************************************************************)
EXTENDS Integers, Sequences, FiniteSets, TLC

\* ------------------------------------------------------------------ bounds
MaxRows == 2
MaxRuns == 2

\* ------------------------------------------------------- program constants
HydrationAttempts == 4
RerenderAttempts == 10
MinFallbackLen == 2

None == "null"
\* None where a text is expected
NoText == <<"None">>
UrlTab == <<"u1", "u2", "u3", "u4">>

\* --------------------------------------------------------------- text
Digits == {"0", "1", "2", "3", "4", "5", "6", "7", "8", "9"}
White == {" ", "\n"}

RECURSIVE LStrip(_, _)
LStrip(s, chars) ==
    IF s # <<>> /\ Head(s) \in chars THEN LStrip(Tail(s), chars) ELSE s

RECURSIVE RStrip(_, _)
RStrip(s, chars) ==
    IF s # <<>> /\ s[Len(s)] \in chars
    THEN RStrip(SubSeq(s, 1, Len(s) - 1), chars)
    ELSE s

\* str.strip(chars); Strip(s, White) is str.strip() and the script's trim()
Strip(s, chars) == RStrip(LStrip(s, chars), chars)

UpperLetters ==
    <<"A", "B", "C", "D", "E", "F", "G", "H", "I", "J", "K", "L", "M",
      "N", "O", "P", "Q", "R", "S", "T", "U", "V", "W", "X", "Y", "Z">>
LowerLetters ==
    <<"a", "b", "c", "d", "e", "f", "g", "h", "i", "j", "k", "l", "m",
      "n", "o", "p", "q", "r", "s", "t", "u", "v", "w", "x", "y", "z">>

LowerChar(c) ==
    IF \E k \in 1..Len(UpperLetters) : UpperLetters[k] = c
    THEN LowerLetters[CHOOSE k \in 1..Len(UpperLetters) : UpperLetters[k] = c]
    ELSE c

\* str.lower()
Lower(s) == [k \in 1..Len(s) |-> LowerChar(s[k])]

\* str.replace(old, new) for a one-character old
ReplaceChar(s, old, new) == [k \in 1..Len(s) |-> IF s[k] = old THEN new ELSE s[k]]

\* one pass of str.replace("--", "-"): leftmost, non-overlapping
RECURSIVE ReplaceDoubleHyphen(_)
ReplaceDoubleHyphen(s) ==
    IF Len(s) < 2 THEN s
    ELSE IF s[1] = "-" /\ s[2] = "-"
         THEN <<"-">> \o ReplaceDoubleHyphen(SubSeq(s, 3, Len(s)))
         ELSE <<s[1]>> \o ReplaceDoubleHyphen(Tail(s))

HasDoubleHyphen(s) == \E k \in 1..(Len(s) - 1) : s[k] = "-" /\ s[k + 1] = "-"

\* while "--" in slug: slug = slug.replace("--", "-")
RECURSIVE CollapseHyphens(_)
CollapseHyphens(s) ==
    IF HasDoubleHyphen(s) THEN CollapseHyphens(ReplaceDoubleHyphen(s)) ELSE s

\* the slug main() derives from a title
SlugOfTitle(title) ==
    Strip(CollapseHyphens(ReplaceChar(Strip(Lower(title), White), " ", "-")), {"-"})

\* old in s
Contains(s, old) ==
    \E k \in 1..(Len(s) - Len(old) + 1) : SubSeq(s, k, k + Len(old) - 1) = old

\* str.replace(old, new) for a non-empty old: leftmost, non-overlapping
RECURSIVE Replace(_, _, _)
Replace(s, old, new) ==
    IF Len(s) < Len(old) THEN s
    ELSE IF SubSeq(s, 1, Len(old)) = old
         THEN new \o Replace(SubSeq(s, Len(old) + 1, Len(s)), old, new)
         ELSE <<Head(s)>> \o Replace(Tail(s), old, new)

\* ------------------------------------------------- the content normalizer
\* the length of the run of characters of a set that starts at position p
RECURSIVE Run(_, _, _)
Run(s, p, chars) ==
    IF p <= Len(s) /\ s[p] \in chars THEN 1 + Run(s, p + 1, chars) ELSE 0

From(s, p) == SubSeq(s, p, Len(s))

Min(set) == CHOOSE x \in set : \A y \in set : x <= y
Max(set) == CHOOSE x \in set : \A y \in set : x >= y

\* re.sub(pattern, '', text) scans from the left: the text before the leftmost match is
\* kept, the match is dropped, and the scan goes on behind it

\* \d{1,3}\.{3,} matches at p: one to three digits, then all the dots that follow
EllipsisAt(s, p) ==
    /\ s[p] \in Digits
    /\ Run(s, p, Digits) <= 3
    /\ Run(s, p + Run(s, p, Digits), {"."}) >= 3

\* re.sub(r'\d{1,3}\.{3,}', '', text)
RECURSIVE DropNumberedEllipsis(_)
DropNumberedEllipsis(s) ==
    LET at == { p \in 1..Len(s) : EllipsisAt(s, p) }
    IN IF at = {} THEN s
       ELSE LET p == Min(at)
                d == Run(s, p, Digits)
            IN SubSeq(s, 1, p - 1)
                 \o DropNumberedEllipsis(From(s, p + d + Run(s, p + d, {"."})))

\* \[\d+\] matches at p
CitationAt(s, p) ==
    /\ s[p] = "["
    /\ Run(s, p + 1, Digits) >= 1
    /\ p + 1 + Run(s, p + 1, Digits) <= Len(s)
    /\ s[p + 1 + Run(s, p + 1, Digits)] = "]"

\* re.sub(r'\[\d+\]', '', text)
RECURSIVE DropCitations(_)
DropCitations(s) ==
    LET at == { p \in 1..Len(s) : CitationAt(s, p) }
    IN IF at = {} THEN s
       ELSE LET p == Min(at)
            IN SubSeq(s, 1, p - 1)
                 \o DropCitations(From(s, p + 2 + Run(s, p + 1, Digits)))

\* (?<!\d)\d{1,2}(?!\d) matches at p; prev tells whether a digit precedes s
ShortNumberAt(s, p, prev) ==
    /\ s[p] \in Digits
    /\ IF p = 1 THEN ~prev ELSE s[p - 1] \notin Digits
    /\ Run(s, p, Digits) <= 2

\* re.sub(r'(?<!\d)\d{1,2}(?!\d)', '', text)
RECURSIVE DropShortNumbers(_, _)
DropShortNumbers(s, prev) ==
    LET at == { p \in 1..Len(s) : ShortNumberAt(s, p, prev) }
    IN IF at = {} THEN s
       ELSE LET p == Min(at)
            IN SubSeq(s, 1, p - 1)
                 \o DropShortNumbers(From(s, p + Run(s, p, Digits)), TRUE)

Sentinel ==
    <<"E", "X", "T", "R", "E", "M", "E", "L", "Y", " ",
      "I", "M", "P", "O", "R", "T", "A", "N", "T", ":">>

\* the position of the first occurrence of old in s, 0 when there is none
Find(s, old) ==
    LET at == { k \in 1..(Len(s) - Len(old) + 1) : SubSeq(s, k, k + Len(old) - 1) = old }
    IN IF at = {} THEN 0 ELSE CHOOSE k \in at : \A j \in at : k <= j

\* re.sub(r'EXTREMELY IMPORTANT:.*', '', text, flags=re.DOTALL)
DropReminder(s) ==
    IF Find(s, Sentinel) = 0 THEN s ELSE SubSeq(s, 1, Find(s, Sentinel) - 1)

\* a cleaning that drops the short numbers before the citations
clean_responseDigitsFirst(text) ==
    Strip(DropReminder(DropCitations(DropShortNumbers(DropNumberedEllipsis(text), FALSE))),
          White)

clean_response(text) ==
    Strip(DropReminder(DropShortNumbers(DropCitations(DropNumberedEllipsis(text)), FALSE)),
          White)

DescLimit == 500
DescMinCut == 200

\* str.rfind('.') as a 1-based position, 0 when there is none
LastPeriod(s) ==
    LET at == { k \in 1..Len(s) : s[k] = "." }
    IN IF at = {} THEN 0 ELSE CHOOSE k \in at : \A j \in at : k >= j

\* cleaned.split('\n\n')[0]
FirstParagraph(s) ==
    IF Find(s, <<"\n", "\n">>) = 0 THEN s ELSE SubSeq(s, 1, Find(s, <<"\n", "\n">>) - 1)

\* the cut of a description longer than the limit (last_period is 0-based in the script)
Truncate(desc) ==
    LET truncated == SubSeq(desc, 1, DescLimit)
        last_period == LastPeriod(truncated) - 1
    IN IF last_period > DescMinCut
       THEN SubSeq(truncated, 1, last_period + 1)
       ELSE truncated \o <<".", ".", ".">>

extract_description(raw_answer) ==
    LET desc == Strip(FirstParagraph(clean_response(raw_answer)), White)
    IN IF Len(desc) > DescLimit THEN Truncate(desc) ELSE desc

Bullet == "(bullet)"
BulletChars == {Bullet, "-", "*"}
TopicMinLen == 3
TopicMaxLen == 80
SlugMinLen == 2
MaxTopics == 15
MaxStars == 2

\* \*{0,2}\s*: matches at position p; the position of the colon, 0 when it does not
TailColon(s, p) ==
    LET st == Run(s, p, {"*"})
        ws == Run(s, p + st, White)
        c == p + st + ws
    IN IF st <= MaxStars /\ c <= Len(s) /\ s[c] = ":" THEN c ELSE 0

\* the last position of the line that position q is on ('.' does not match a newline)
LineEnd(s, q) == Min({ k \in q..Len(s) : s[k] = "\n" } \cup {Len(s) + 1}) - 1

\* the lazy group (.+?) from position q: its shortest end e with the tail matching after it
GroupEnds(s, q) == { e \in q..LineEnd(s, q) : TailColon(s, e + 1) # 0 }

\* the ways the header pattern [bullet]\s+\*{0,2}(.+?)\*{0,2}\s*: matches at position p,
\* as <<whitespace taken, stars taken>>
HeaderSplits(s, p) ==
    IF p > Len(s) \/ s[p] \notin BulletChars THEN {}
    ELSE { ws \in (1..Run(s, p + 1, White)) \X (0..MaxStars) :
             /\ ws[2] <= Run(s, p + 1 + ws[1], {"*"})
             /\ GroupEnds(s, p + 1 + ws[1] + ws[2]) # {} }

\* the match the regex engine reports at p: greedy whitespace, greedy stars, lazy group
HeaderMatch(s, p) ==
    LET splits == HeaderSplits(s, p)
        w == Max({ ws[1] : ws \in splits })
        st == Max({ ws[2] : ws \in { x \in splits : x[1] = w } })
        q == p + 1 + w + st
        e == Min(GroupEnds(s, q))
    IN [group |-> SubSeq(s, q, e), end |-> TailColon(s, e + 1)]

SlugChars == {"-"} \cup Digits \cup { LowerLetters[k] : k \in 1..Len(LowerLetters) }

\* re.sub(r'[^a-z0-9\-]', '', slug)
KeepSlugChars(s) == SelectSeq(s, LAMBDA c : c \in SlugChars)

\* the slug of a topic label
TopicSlug(topic) ==
    Strip(CollapseHyphens(KeepSlugChars(
        ReplaceChar(ReplaceChar(Lower(topic), " ", "-"), "/", "-"))), {"-"})

\* topic = match.group(1).strip().strip('*').strip()
TopicLabel(group) == Strip(Strip(Strip(group, White), {"*"}), White)

\* the slugs appended for the matches of header_pattern.finditer from position p on
RECURSIVE TopicsFrom(_, _)
TopicsFrom(s, p) ==
    LET at == { q \in p..Len(s) : HeaderSplits(s, q) # {} }
    IN IF at = {} THEN <<>>
       ELSE LET m == HeaderMatch(s, Min(at))
                topic == TopicLabel(m.group)
                slug == TopicSlug(topic)
                rest == TopicsFrom(s, m.end + 1)
            IN IF /\ TopicMinLen < Len(topic)
                  /\ Len(topic) < TopicMaxLen
                  /\ slug # <<>>
                  /\ Len(slug) > SlugMinLen
               THEN <<slug>> \o rest
               ELSE rest

\* no deduplication
KeepAll(topics, seen) == topics

\* deduplicate while preserving order
RECURSIVE Unique(_, _)
Unique(topics, seen) ==
    IF topics = <<>> THEN <<>>
    ELSE IF Head(topics) \in seen THEN Unique(Tail(topics), seen)
    ELSE <<Head(topics)>> \o Unique(Tail(topics), seen \cup {Head(topics)})

extract_topics(raw_answer) ==
    LET unique == Unique(TopicsFrom(clean_response(raw_answer), 1), {})
    IN SubSeq(unique, 1, IF Len(unique) < MaxTopics THEN Len(unique) ELSE MaxTopics)

\* ------------------------------------------------------- the remote list
\* the rows a list can show (raw cell texts, first column first)
RowShapes ==
    { << <<"A", " ", "b">>, <<"3">> >>,
      << <<"a", "-", "b">> >>,
      << <<"7">>, <<"A", " ", "b">> >>,
      << <<" ", "A", " ", "b", "c", " ">> >>,
      << <<>>, <<".", ".", ".">> >> }

Remotes == UNION { [1..n -> RowShapes] : n \in 0..MaxRows }

\* the script's /^(\d+|\.\.\.)$/
IsNumericOrEllipsis(text) ==
    \/ text # <<>> /\ \A k \in 1..Len(text) : text[k] \in Digits
    \/ text = <<".", ".", ".">>

CellTexts(cells) == [k \in 1..Len(cells) |-> Strip(cells[k], White)]

UsableTitle(text) == Len(text) > 1 /\ ~IsNumericOrEllipsis(text)

\* the first cell text that can serve as a title, <<>> when there is none
RECURSIVE FirstTitle(_)
FirstTitle(texts) ==
    IF texts = <<>> THEN <<>>
    ELSE IF UsableTitle(Head(texts)) THEN Head(texts)
    ELSE FirstTitle(Tail(texts))

\* the row-extraction script over the rows the page shows
RECURSIVE ExtractRows(_)
ExtractRows(dom) ==
    IF dom = <<>> THEN <<>>
    ELSE LET cells == Head(dom)
             texts == CellTexts(cells)
             title == FirstTitle(texts)
             rest == ExtractRows(Tail(dom))
         IN IF Len(cells) = 0 \/ title = <<>> THEN rest
            ELSE <<[title |-> title, cellTexts |-> texts]>> \o rest

\* the hydration probe: the number of td cells
RECURSIVE CountCells(_)
CountCells(dom) ==
    IF dom = <<>> THEN 0 ELSE Len(Head(dom)) + CountCells(Tail(dom))

\* the re-render probe: the number of non-empty first-column cells
RECURSIVE CountFirstCells(_)
CountFirstCells(dom) ==
    IF dom = <<>> THEN 0
    ELSE (IF Head(dom) # <<>> /\ Strip(Head(dom)[1], White) # <<>> THEN 1 ELSE 0)
         + CountFirstCells(Tail(dom))

\* a click script that takes a row whose first-column text contains the title
ClickTargetContaining(dom, title) ==
    LET hits == { k \in 1..Len(dom) :
                    dom[k] # <<>> /\ Contains(Strip(dom[k][1], White), title) }
    IN IF hits = {} THEN 0 ELSE CHOOSE k \in hits : \A j \in hits : k <= j

\* the click script: the first row whose first-column text equals the title, 0 when none
ClickTarget(dom, title) ==
    LET hits == { k \in 1..Len(dom) :
                    dom[k] # <<>> /\ Strip(dom[k][1], White) = title }
    IN IF hits = {} THEN 0 ELSE CHOOSE k \in hits : \A j \in hits : k <= j

Dom(rem, shown) == SubSeq(rem, 1, shown)

Sources(rd) == IF Len(rd.cellTexts) > 1 THEN rd.cellTexts[2] ELSE <<>>
Date(rd) == IF Len(rd.cellTexts) > 2 THEN rd.cellTexts[3] ELSE <<>>

Entry(rd, url) ==
    [title |-> rd.title, url |-> url, sources |-> Sources(rd), date |-> Date(rd)]

\* ------------------------------------------------------------------ state
VARIABLES
    remote,        \* the rows of the remote list
    dpc,           \* where the browser function is: discover_notebooks / get_notebook_title
    session,       \* the browser context: "none", "open", "closed"
    closes,        \* how often context.close() was called
    opAfterClose,  \* a page operation was performed on a context that is not open
    exit,          \* the pending exit while the finally block runs: "return" or "raise"
    abortAt,       \* the step whose exception propagated
    shown,         \* how many rows of the list the page currently shows
    attempt,       \* hydration probes made
    row_count,     \* the last hydration probe
    row_data,      \* the extracted rows
    extracted,     \* the extraction script ran
    starved,       \* the hydration loop used up its attempts with every probe at 0
    i,             \* index of the row being resolved
    target,        \* the row the click activated
    notebooks,     \* the entries accumulated by discover_notebooks
    outcomes,      \* per resolved row: "resolved", "not_found", "threw", "timeout"
    lookups,       \* click lookups issued
    wait_attempt,  \* re-render probes made since the last return navigation
    current_rows,  \* the last re-render probe
    page_title,    \* what page.title() gave get_notebook_title
    title,         \* the title get_notebook_title holds
    sel,           \* index of the fallback selector being tried
    result,        \* what the browser function returned
    mpc,           \* where main() of discover_notebooks.py is
    runs,          \* how often main() was started
    now,           \* the clock datetime.now() reads: it advances while the browser runs
                   \* and while the user is asked; stamps in between are taken as equal
    sync,          \* --sync was given
    enrich_flag,   \* --enrich was given
    snapshot,      \* main's notebooks: what discover_notebooks returned
    library,       \* the library main() holds in memory
    libfile,       \* the library stored in library.json
    new_slugs,     \* the slugs main() added in this run
    unenriched,    \* the slugs main() passes to enrich_notebooks
    mi,            \* index of the slug being enriched
    enriched,      \* enrich_notebooks' count of updated records
    answers,       \* what ask_notebooklm gave for each slug asked so far
    raw_text,      \* the raw answer given to the normalizer
    npc,           \* how far the normalizer is with it
    norm           \* what the normalizer derived: cleaned text, description, topics

dvars == <<dpc, session, closes, opAfterClose, exit, abortAt, shown, attempt, row_count,
           row_data, extracted, starved, i, target, notebooks, outcomes, lookups,
           wait_attempt, current_rows, page_title, title, sel, result>>

tvars == <<page_title, title, sel>>

mvars == <<mpc, runs, now, sync, enrich_flag, snapshot, library, libfile, new_slugs,
           unenriched, mi, enriched, answers>>

nvars == <<raw_text, npc, norm>>

vars == <<remote, dvars, mvars, nvars>>

\* ------------------------------------------------- discover_notebooks
DInit ==
    /\ dpc = "idle"
    /\ session = "none"
    /\ closes = 0
    /\ opAfterClose = FALSE
    /\ exit = "none"
    /\ abortAt = "none"
    /\ shown = 0
    /\ attempt = 0
    /\ row_count = 0
    /\ row_data = <<>>
    /\ extracted = FALSE
    /\ starved = FALSE
    /\ i = 0
    /\ target = 0
    /\ notebooks = <<>>
    /\ outcomes = <<>>
    /\ lookups = 0
    /\ wait_attempt = 0
    /\ current_rows = 0
    /\ page_title = NoText
    /\ title = NoText
    /\ sel = 0
    /\ result = <<>>

\* a page operation: the monitor notes one made on a context that is not open
PageOp == opAfterClose' = (opAfterClose \/ session # "open")

\* the list keeps rendering while the script waits or runs
Render == shown' \in shown..Len(remote)

\* a function that closes the context on return only, with no finally clause
LeaveTryNoFinally(kind, value, where) ==
    /\ dpc' = (IF kind = "return" THEN "finally" ELSE "raised")
    /\ exit' = kind
    /\ result' = value
    /\ abortAt' = where

\* leaving the try block: the finally clause runs before the function exits
LeaveTry(kind, value, where) ==
    /\ dpc' = "finally"
    /\ exit' = kind
    /\ result' = value
    /\ abortAt' = where

\* BrowserFactory.launch_persistent_context returns a context or raises
Launch ==
    /\ dpc = "idle"
    /\ \/ /\ session' = "open"
          /\ dpc' = "goto"
          /\ UNCHANGED abortAt
       \/ /\ dpc' = "raised"
          /\ abortAt' = "launch"
          /\ UNCHANGED session
    /\ UNCHANGED <<tvars, mvars, nvars>>
    /\ UNCHANGED <<remote, closes, opAfterClose, exit, shown, attempt, row_count, row_data,
                   extracted, starved, i, target, notebooks, outcomes, lookups, wait_attempt,
                   current_rows, result>>

\* page.goto(NOTEBOOKLM_HOME) before the hydration loop
InitialGoto ==
    /\ dpc = "goto"
    /\ PageOp
    /\ \/ /\ dpc' = "hydrate"
          /\ shown' = 0
          /\ attempt' = 0
          /\ row_count' = 0
          /\ UNCHANGED <<exit, result, abortAt>>
       \/ /\ LeaveTry("raise", <<>>, "goto")
          /\ UNCHANGED <<shown, attempt, row_count>>
    /\ UNCHANGED <<tvars, mvars, nvars>>
    /\ UNCHANGED <<remote, session, closes, row_data, extracted, starved, i, target, notebooks,
                   outcomes, lookups, wait_attempt, current_rows>>

\* a loop that makes all its attempts whatever they return
HydrationDoneAfterAll(count, tries) == tries = HydrationAttempts

\* the loop of the hydration poller ends on the first non-zero count or after the last attempt
HydrationDone(count, tries) == count > 0 \/ tries = HydrationAttempts

\* one iteration of the hydration loop: sleep, probe, test
HydrationProbe ==
    /\ dpc = "hydrate"
    /\ attempt < HydrationAttempts
    /\ PageOp
    /\ Render
    /\ \/ /\ row_count' = CountCells(Dom(remote, shown'))
          /\ attempt' = attempt + 1
          /\ dpc' = IF HydrationDone(row_count', attempt') THEN "hydrated" ELSE "hydrate"
          /\ starved' = (attempt' = HydrationAttempts /\ row_count' = 0)
          /\ UNCHANGED <<exit, result, abortAt>>
       \/ /\ LeaveTry("raise", <<>>, "hydration_probe")
          /\ UNCHANGED <<row_count, attempt, starved>>
    /\ UNCHANGED <<tvars, mvars, nvars>>
    /\ UNCHANGED <<remote, session, closes, row_data, extracted, i, target, notebooks,
                   outcomes, lookups, wait_attempt, current_rows>>

\* a test that lets extraction run on a list that never hydrated
HydrationFailedNever(count) == count < 0

\* if row_count == 0
HydrationFailed(count) == count = 0

\* return [] when the list never hydrated
ReturnEmpty ==
    /\ dpc = "hydrated"
    /\ HydrationFailed(row_count)
    /\ LeaveTry("return", <<>>, "none")
    /\ UNCHANGED <<tvars, mvars, nvars>>
    /\ UNCHANGED <<remote, session, closes, opAfterClose, shown, attempt, row_count,
                   row_data, extracted, starved, i, target, notebooks, outcomes, lookups,
                   wait_attempt, current_rows>>

\* the row-extraction script; an empty row_data skips the loop and returns notebooks
Extract ==
    /\ dpc = "hydrated"
    /\ ~HydrationFailed(row_count)
    /\ PageOp
    /\ Render
    /\ \/ /\ row_data' = ExtractRows(Dom(remote, shown'))
          /\ extracted' = TRUE
          /\ notebooks' = <<>>
          /\ i' = 1
          /\ IF row_data' = <<>>
             THEN LeaveTry("return", <<>>, "none")
             ELSE dpc' = "click" /\ UNCHANGED <<exit, result, abortAt>>
       \/ /\ LeaveTry("raise", <<>>, "extract")
          /\ UNCHANGED <<row_data, extracted, notebooks, i>>
    /\ attempt' = 0
    /\ row_count' = 0
    /\ UNCHANGED <<tvars, mvars, nvars>>
    /\ UNCHANGED <<remote, session, closes, starved, target, outcomes, lookups, wait_attempt,
                   current_rows>>

\* an except clause that misses the timeout of wait_for_url
CaughtOnlyClick(step) == step = "click"

\* what the except clause of the per-row try block catches
Caught(step) == step \in {"click", "wait_url"}

\* the entry appended for row i and the outcome recorded for it
Append_(url, outcome) ==
    /\ notebooks' = Append(notebooks, Entry(row_data[i], url))
    /\ outcomes' = Append(outcomes, outcome)

\* the click script for row i: it finds and activates a row, finds none, or throws
ClickLookup ==
    /\ dpc = "click"
    /\ PageOp
    /\ Render
    /\ lookups' = lookups + 1
    /\ \/ LET k == ClickTarget(Dom(remote, shown'), row_data[i].title)
          IN IF k # 0
             THEN /\ target' = k
                  /\ dpc' = "wait_url"
                  /\ UNCHANGED <<notebooks, outcomes, exit, result, abortAt>>
             ELSE /\ Append_(None, "not_found")
                  /\ dpc' = "goback"
                  /\ UNCHANGED <<target, exit, result, abortAt>>
       \/ IF Caught("click")
          THEN /\ Append_(None, "threw")
               /\ dpc' = "goback"
               /\ UNCHANGED <<target, exit, result, abortAt>>
          ELSE /\ LeaveTry("raise", <<>>, "click")
               /\ UNCHANGED <<target, notebooks, outcomes>>
    /\ wait_attempt' = 0
    /\ current_rows' = 0
    /\ UNCHANGED <<tvars, mvars, nvars>>
    /\ UNCHANGED <<remote, session, closes, attempt, row_count, row_data, extracted, starved, i>>

\* page.wait_for_url("**/notebook/**") and page.url after a click
WaitForUrl ==
    /\ dpc = "wait_url"
    /\ PageOp
    /\ \/ /\ Append_(UrlTab[target], "resolved")
          /\ dpc' = "goback"
          /\ UNCHANGED <<exit, result, abortAt>>
       \/ IF Caught("wait_url")
          THEN /\ Append_(None, "timeout")
               /\ dpc' = "goback"
               /\ UNCHANGED <<exit, result, abortAt>>
          ELSE /\ LeaveTry("raise", <<>>, "wait_url")
               /\ UNCHANGED <<notebooks, outcomes>>
    /\ target' = 0
    /\ UNCHANGED <<tvars, mvars, nvars>>
    /\ UNCHANGED <<remote, session, closes, shown, attempt, row_count, row_data, extracted, starved,
                   i, lookups, wait_attempt, current_rows>>

\* page.goto(NOTEBOOKLM_HOME) after each row, outside the per-row try block
ReturnGoto ==
    /\ dpc = "goback"
    /\ PageOp
    /\ \/ /\ dpc' = "repoll"
          /\ shown' = 0
          /\ wait_attempt' = 0
          /\ UNCHANGED <<exit, result, abortAt>>
       \/ /\ LeaveTry("raise", <<>>, "return_goto")
          /\ UNCHANGED <<shown, wait_attempt>>
    /\ UNCHANGED <<tvars, mvars, nvars>>
    /\ UNCHANGED <<remote, session, closes, attempt, row_count, row_data, extracted, starved, i,
                   target, notebooks, outcomes, lookups, current_rows>>

\* a re-render loop that goes on until the list is back
RerenderDoneWhenBack(count, needed, tries) == count >= needed

\* a re-render loop that, like the hydration loop, stops at the first non-zero count
RerenderDoneNonZero(count, needed, tries) == count > 0 \/ tries = RerenderAttempts

\* the re-render loop ends when the count reaches len(row_data) or after the last attempt
RerenderDone(count, needed, tries) == count >= needed \/ tries = RerenderAttempts

\* one iteration of the re-render loop: sleep, probe, test; then the next row or return
RerenderProbe ==
    /\ dpc = "repoll"
    /\ wait_attempt < RerenderAttempts
    /\ PageOp
    /\ Render
    /\ \/ /\ current_rows' = CountFirstCells(Dom(remote, shown'))
          /\ wait_attempt' = wait_attempt + 1
          /\ IF RerenderDone(current_rows', Len(row_data), wait_attempt')
             THEN IF i = Len(row_data)
                  THEN /\ LeaveTry("return", notebooks, "none")
                       /\ UNCHANGED i
                  ELSE /\ i' = i + 1
                       /\ dpc' = "click"
                       /\ UNCHANGED <<exit, result, abortAt>>
             ELSE UNCHANGED <<dpc, i, exit, result, abortAt>>
       \/ /\ LeaveTry("raise", <<>>, "rerender_probe")
          /\ UNCHANGED <<current_rows, wait_attempt, i>>
    /\ UNCHANGED <<tvars, mvars, nvars>>
    /\ UNCHANGED <<remote, session, closes, attempt, row_count, row_data, extracted, starved,
                   target, notebooks, outcomes, lookups>>

\* finally: context.close(), then the function returns or the exception propagates
Close ==
    /\ dpc = "finally"
    /\ session' = "closed"
    /\ closes' = closes + 1
    /\ dpc' = IF exit = "return" THEN "returned" ELSE "raised"
    /\ UNCHANGED <<tvars, mvars, nvars>>
    /\ UNCHANGED <<remote, opAfterClose, exit, abortAt, shown, attempt, row_count, row_data,
                   extracted, starved, i, target, notebooks, outcomes, lookups, wait_attempt,
                   current_rows, result>>

Discover ==
    \/ Launch
    \/ InitialGoto
    \/ HydrationProbe
    \/ ReturnEmpty
    \/ Extract
    \/ ClickLookup
    \/ WaitForUrl
    \/ ReturnGoto
    \/ RerenderProbe
    \/ Close

\* ------------------------------------------------- get_notebook_title
Marker == <<" ", "-", " ", "N", "o", "t", "e", "b", "o", "o", "k", "L", "M">>
Placeholder == <<"N", "o", "t", "e", "b", "o", "o", "k", "L", "M">>

\* what page.title() can give
PageTitles ==
    { <<>>,
      <<" ">>,
      Placeholder,
      Marker,
      <<"A", "b">> \o Marker,
      <<"A", "b">>,
      <<" ", "c", "d">> }

\* what a fallback element's value attribute or inner text can give
FallbackVals == { <<>>, <<"a", "b">>, <<" ", "a", "b", "c">>, <<" ", " ", " ", " ">> }

Truthy(text) == text # NoText /\ text # <<>>

\* the primary method: the title taken from the page title, NoText when none
TitleOfPage(pt) ==
    IF Truthy(pt) /\ Contains(pt, Marker)
    THEN Strip(Replace(pt, Marker, <<>>), White)
    ELSE IF Truthy(pt) /\ Truthy(Strip(pt, White)) /\ Strip(pt, White) # Placeholder
         THEN Strip(pt, White)
         ELSE NoText

\* the test a fallback value has to pass
FallbackOk(val) ==
    Truthy(val) /\ Truthy(Strip(val, White)) /\ Len(Strip(val, White)) > MinFallbackLen

Selectors == <<"div[class*=notebook-title]", "input[aria-label*=title]">>

TitleLaunch ==
    /\ dpc = "idle"
    /\ \/ /\ session' = "open"
          /\ dpc' = "t_goto"
          /\ UNCHANGED abortAt
       \/ /\ dpc' = "raised"
          /\ abortAt' = "launch"
          /\ UNCHANGED session
    /\ UNCHANGED <<tvars, mvars, nvars>>
    /\ UNCHANGED <<remote, closes, opAfterClose, exit, shown, attempt, row_count, row_data,
                   extracted, starved, i, target, notebooks, outcomes, lookups, wait_attempt,
                   current_rows, result>>

dlocals == <<shown, attempt, row_count, row_data, extracted, starved, i, target, notebooks, outcomes,
             lookups, wait_attempt, current_rows>>

\* page.goto(url) and the settle delay
TitleGoto ==
    /\ dpc = "t_goto"
    /\ PageOp
    /\ \/ /\ dpc' = "t_title"
          /\ UNCHANGED <<exit, result, abortAt>>
       \/ LeaveTry("raise", <<>>, "goto")
    /\ UNCHANGED <<remote, session, closes, dlocals, tvars, mvars, nvars>>

\* page.title() and the primary method; with a title in hand the function returns it
ReadTitle ==
    /\ dpc = "t_title"
    /\ PageOp
    /\ \/ \E pt \in PageTitles :
            /\ page_title' = pt
            /\ title' = TitleOfPage(pt)
            /\ IF ~Truthy(title')
               THEN /\ dpc' = "t_fallback"
                    /\ sel' = 1
                    /\ UNCHANGED <<exit, result, abortAt>>
               ELSE /\ LeaveTry("return", title', "none")
                    /\ UNCHANGED sel
       \/ /\ LeaveTry("raise", <<>>, "title")
          /\ UNCHANGED <<tvars, mvars, nvars>>
    /\ UNCHANGED <<remote, session, closes, dlocals, mvars, nvars>>

\* one iteration of the fallback loop: no element, an element with a value, or an exception
FallbackProbe ==
    /\ dpc = "t_fallback"
    /\ sel <= Len(Selectors)
    /\ PageOp
    /\ \/ \E val \in FallbackVals :
            IF FallbackOk(val)
            THEN /\ title' = Strip(val, White)
                 /\ LeaveTry("return", title', "none")
                 /\ UNCHANGED sel
            ELSE /\ sel' = sel + 1
                 /\ UNCHANGED title
                 /\ IF sel' > Len(Selectors)
                    THEN LeaveTry("return", title, "none")
                    ELSE UNCHANGED <<dpc, exit, result, abortAt>>
       \/ /\ sel' = sel + 1
          /\ UNCHANGED title
          /\ IF sel' > Len(Selectors)
             THEN LeaveTry("return", title, "none")
             ELSE UNCHANGED <<dpc, exit, result, abortAt>>
    /\ UNCHANGED <<remote, session, closes, dlocals, page_title, mvars, nvars>>

GetTitle ==
    \/ TitleLaunch
    \/ TitleGoto
    \/ ReadTitle
    \/ FallbackProbe

\* ------------------------------------------------- main() of discover_notebooks.py
\* the library main() starts from when library.json does not exist: the records by
\* slug and the order of the slugs in the dict; active_notebook_id and the updated_at of
\* the library are written and never read, and are not part of the state
EmptyLibrary == [notebooks |-> <<>>, order |-> <<>>]

Keys(lib) == DOMAIN lib.notebooks

MInit ==
    /\ mpc = "idle"
    /\ runs = 0
    /\ now = 1
    /\ sync = FALSE
    /\ enrich_flag = FALSE
    /\ snapshot = <<>>
    /\ library = EmptyLibrary
    /\ libfile = EmptyLibrary
    /\ new_slugs = <<>>
    /\ unenriched = <<>>
    /\ mi = 0
    /\ enriched = 0
    /\ answers = <<>>

\* what one run of discover_notebooks can return for a list: the rows extracted from the
\* part of the list shown when the extraction script ran, each with the address of the
\* first row of the list that carries its title, or with None
EntryChoices(rem, rd) ==
    {Entry(rd, None)} \cup
    (IF ClickTarget(rem, rd.title) = 0 THEN {}
     ELSE {Entry(rd, UrlTab[ClickTarget(rem, rd.title)])})

RECURSIVE SnapshotsOf(_, _)
SnapshotsOf(rem, rds) ==
    IF rds = <<>> THEN {<<>>}
    ELSE { <<e>> \o rest : e \in EntryChoices(rem, Head(rds)),
                           rest \in SnapshotsOf(rem, Tail(rds)) }

Snapshots(rem) ==
    {<<>>} \cup
    UNION { SnapshotsOf(rem, ExtractRows(Dom(rem, n))) :
              n \in { m \in 1..Len(rem) : CountCells(Dom(rem, m)) > 0 } }

\* the non-empty lists one run can return, over every list of rows
Returned == UNION { Snapshots(rem) : rem \in Remotes } \ {<<>>}

ExistingUrls(lib) == { lib.notebooks[k].url : k \in Keys(lib) }

\* a test that forgets the urls the library already holds
IsNewUnlisted(nb, existing_urls) == nb.url # None

\* nb.get("url") and nb["url"] not in existing_urls
IsNew(nb, existing_urls) == nb.url # None /\ nb.url \notin existing_urls

\* a record that carries the title where the slug belongs
NewRecordTitleId(slug, nb, t) ==
    [id |-> nb.title, url |-> nb.url, name |-> nb.title, description |-> <<>>,
     topics |-> <<>>, updated_at |-> t]

\* the record main() builds for a new notebook; content_types, use_cases, tags,
\* use_count and last_used are set to fixed values, created_at is written and never
\* read, and they are not part of the state
NewRecord(slug, nb, t) ==
    [id |-> slug, url |-> nb.url, name |-> nb.title, description |-> <<>>,
     topics |-> <<>>, updated_at |-> t]

\* library["notebooks"][slug] = record: a dict keeps the place of a key it already has
Store(lib, slug, rec) ==
    [lib EXCEPT
        !.notebooks = [k \in Keys(lib) \cup {slug} |->
                          IF k = slug THEN rec ELSE lib.notebooks[k]],
        !.order = IF slug \in Keys(lib) THEN lib.order ELSE Append(lib.order, slug)]

\* the loop that adds the new notebooks
RECURSIVE AddAll(_, _, _)
AddAll(lib, news, t) ==
    IF news = <<>> THEN lib
    ELSE AddAll(Store(lib, SlugOfTitle(Head(news).title),
                      NewRecord(SlugOfTitle(Head(news).title), Head(news), t)),
                Tail(news), t)

SlugsOf(news) == [k \in 1..Len(news) |-> SlugOfTitle(news[k].title)]

\* a selection that keeps the entries without a url
NewNotebooksNullable(snap, lib) ==
    SelectSeq(snap, LAMBDA nb : nb.url \notin ExistingUrls(lib))

\* new_notebooks: the entries of the snapshot that are new
NewNotebooks(snap, lib) == SelectSeq(snap, LAMBDA nb : IsNew(nb, ExistingUrls(lib)))

\* a selection that takes every record with a url
UnenrichedAll(lib) == SelectSeq(lib.order, LAMBDA k : lib.notebooks[k].url # None)

\* the slugs of the records with an empty description and a url, in the order of the dict
Unenriched(lib) ==
    SelectSeq(lib.order,
              LAMBDA k : ~Truthy(lib.notebooks[k].description) /\ lib.notebooks[k].url # None)

\* main() up to the loading of the library: the discovery run against the list
\* the remote application shows at that time (between two runs notebooks are renamed,
\* added or removed) and the loading; main() ends at once when discover_notebooks raises
\* or returns an empty snapshot
MainDiscover ==
    /\ mpc = "idle"
    /\ runs < MaxRuns
    /\ runs' = runs + 1
    /\ now' = now + 1
    /\ \/ /\ snapshot' \in Returned
          /\ mpc' = "loaded"
          /\ library' = libfile
       \/ UNCHANGED <<mpc, snapshot, library>>
    /\ UNCHANGED <<sync, enrich_flag, libfile, new_slugs, unenriched, mi, enriched, answers>>
    /\ UNCHANGED <<remote, dvars, nvars>>

\* the reconciliation: the new notebooks are those with a url the library does not hold;
\* with --sync they are stored under their slugs and the library is saved; --sync
\* is first read here
Reconcile ==
    /\ mpc = "loaded"
    /\ sync' \in BOOLEAN
    /\ LET new_notebooks == NewNotebooks(snapshot, library)
       IN IF new_notebooks # <<>> /\ sync'
          THEN /\ library' = AddAll(library, new_notebooks, now)
               /\ libfile' = library'
               /\ new_slugs' = SlugsOf(new_notebooks)
          ELSE UNCHANGED <<library, libfile, new_slugs>>
    /\ mpc' = "reconciled"
    /\ UNCHANGED <<runs, now, enrich_flag, snapshot, unenriched, mi, enriched, answers>>
    /\ UNCHANGED <<remote, dvars, nvars>>

\* the choice of the records to enrich and the decision to enrich them: forced by
\* --enrich, or asked of the user when --sync found records without a description;
\* --enrich is first read here; --sync and new_slugs are not read after this, the
\* snapshot is only printed
Decide ==
    /\ mpc = "reconciled"
    /\ unenriched' = Unenriched(library)
    /\ enrich_flag' \in BOOLEAN
    /\ \E response \in BOOLEAN :
         LET should_enrich ==
                 IF enrich_flag' THEN TRUE
                 ELSE IF unenriched' # <<>> /\ sync THEN response
                 ELSE FALSE
         IN IF should_enrich /\ unenriched' # <<>>
            THEN /\ mpc' = "enriching"
                 /\ mi' = 1
                 /\ enriched' = 0
                 /\ answers' = <<>>
            ELSE /\ mpc' = "done"
                 /\ UNCHANGED <<mi, enriched, answers>>
    /\ sync' = FALSE
    /\ snapshot' = <<>>
    /\ new_slugs' = <<>>
    /\ now' = now + 1
    /\ UNCHANGED <<runs, library, libfile>>
    /\ UNCHANGED <<remote, dvars, nvars>>

\* what ask_notebooklm can answer; Raised stands for an exception
Raised == <<"raise">>
Answers ==
    { <<>>,
      <<"a", "b", ".">>,
      <<"[", "1", "]">>,
      <<"-", " ", "a", "b", "c", "d", ":", " ", "x">> }

\* a test that takes an empty answer for an answer
AnsweredUnlessRaised(raw) == raw # Raised

\* if raw_answer:
Answered(raw) == raw # Raised /\ Truthy(raw)

\* a write-back that stores the answer as it came
EnrichedRaw(nb, raw, t) ==
    LET topics == extract_topics(raw)
    IN [nb EXCEPT !.description = raw,
                  !.topics = IF topics # <<>> THEN topics ELSE @,
                  !.updated_at = t]

\* the record after a non-empty answer
Enriched(nb, raw, t) ==
    LET topics == extract_topics(raw)
    IN [nb EXCEPT !.description = extract_description(raw),
                  !.topics = IF topics # <<>> THEN topics ELSE @,
                  !.updated_at = t]

\* one iteration of the loop of enrich_notebooks: ask, and on a non-empty answer write
\* the normalized result into the record; an exception is caught and the record skipped
EnrichStep ==
    /\ mpc = "enriching"
    /\ mi <= Len(unenriched)
    /\ \E raw \in Answers \cup {Raised} :
         /\ answers' = Append(answers, [slug |-> unenriched[mi], raw |-> raw])
         /\ IF Answered(raw)
            THEN /\ library' = [library EXCEPT
                       !.notebooks[unenriched[mi]] = Enriched(@, raw, now)]
                 /\ enriched' = enriched + 1
            ELSE UNCHANGED <<library, enriched>>
    /\ mi' = mi + 1
    /\ UNCHANGED <<mpc, runs, now, sync, enrich_flag, snapshot, libfile, new_slugs, unenriched>>
    /\ UNCHANGED <<remote, dvars, nvars>>

\* the end of enrich_notebooks: the library is saved, the count returned
EnrichSave ==
    /\ mpc = "enriching"
    /\ mi > Len(unenriched)
    /\ libfile' = library
    /\ mpc' = "done"
    /\ UNCHANGED <<runs, now, library, sync, enrich_flag, snapshot, new_slugs, unenriched, mi, enriched,
                   answers>>
    /\ UNCHANGED <<remote, dvars, nvars>>

\* main() prints the snapshot and ends; its flags and locals are gone
Finish ==
    /\ mpc = "done"
    /\ mpc' = "idle"
    /\ snapshot' = <<>>
    /\ library' = EmptyLibrary
    /\ new_slugs' = <<>>
    /\ unenriched' = <<>>
    /\ mi' = 0
    /\ enriched' = 0
    /\ answers' = <<>>
    /\ sync' = FALSE
    /\ enrich_flag' = FALSE
    /\ UNCHANGED <<runs, now, libfile>>
    /\ UNCHANGED <<remote, dvars, nvars>>

Main ==
    \/ MainDiscover
    \/ Reconcile
    \/ Decide
    \/ EnrichStep
    \/ EnrichSave
    \/ Finish

\* ------------------------------------------------- the normalizer on its own
MaxParts == 2

Xs(n) == [k \in 1..n |-> "x"]

\* eight topic headers, one a line
TopicsA ==
    <<"-", " ", "a", "a", "a", "a", ":", "\n", "-", " ", "b", "b", "b", "b",
      ":", "\n", "-", " ", "c", "c", "c", "c", ":", "\n", "-", " ", "d", "d",
      "d", "d", ":", "\n", "-", " ", "e", "e", "e", "e", ":", "\n", "-", " ",
      "f", "f", "f", "f", ":", "\n", "-", " ", "g", "g", "g", "g", ":", "\n",
      "-", " ", "h", "h", "h", "h", ":", "\n">>
\* eight more
TopicsB ==
    <<"-", " ", "i", "i", "i", "i", ":", "\n", "-", " ", "j", "j", "j", "j",
      ":", "\n", "-", " ", "k", "k", "k", "k", ":", "\n", "-", " ", "l", "l",
      "l", "l", ":", "\n", "-", " ", "m", "m", "m", "m", ":", "\n", "-", " ",
      "n", "n", "n", "n", ":", "\n", "-", " ", "o", "o", "o", "o", ":", "\n",
      "-", " ", "p", "p", "p", "p", ":", "\n">>

\* the parts a raw answer is made of: citations, numbers, brackets, paragraph breaks, the
\* reminder, topic headers, and long runs of text around the limit of a description
Pieces ==
    { <<"S", "e", "e", " ", "[", "1", "2", "]", " ", "a", "n", "d", " ", "i",
        "t", "e", "m", " ", "7", " ", "f", "o", "r", " ", "d", "e", "t", "a",
        "i", "l", "s">>,
      <<"[", "1", "2", "]">>,
      <<"7">>,
      <<"a", "b", ".", " ">>,
      <<"1", "2", ".", ".", ".">>,
      <<"[">>,
      <<"]">>,
      <<"\n", "\n">>,
      <<"E", "X", "T", "R", "E", "M", "E", "L", "Y", " ", "I", "M", "P", "O",
        "R", "T", "A", "N", "T", ":", " ", "z">>,
      <<Bullet, " ", "A", "b", "/", "c", " ", " ", "d", ":", " ">>,
      <<"*", " ", "*", "*", "A", "b", "c", "d", "*", "*", ":">>,
      <<"-", " ", "a", "-", "b", ":">>,
      Xs(250),
      Xs(251),
      Xs(200) \o <<".">> \o Xs(50),
      Xs(201) \o <<".">> \o Xs(49),
      TopicsA,
      TopicsB }

RECURSIVE Concat(_)
Concat(parts) == IF parts = <<>> THEN <<>> ELSE Head(parts) \o Concat(Tail(parts))

\* the raw answers: up to MaxParts parts in a row
Inputs == { Concat(parts) : parts \in UNION { [1..n -> Pieces] : n \in 0..MaxParts } }

NoNorm == [cleaned |-> <<>>, description |-> <<>>, topics |-> <<>>]

NInit ==
    /\ raw_text = <<>>
    /\ npc = "idle"
    /\ norm = NoNorm

\* clean_response(raw_answer), as extract_description and extract_topics call it first
CleanStep ==
    /\ npc = "start"
    /\ norm' = [norm EXCEPT !.cleaned = clean_response(raw_text)]
    /\ npc' = "cleaned"
    /\ UNCHANGED <<raw_text, remote, dvars, mvars>>

\* description = extract_description(raw_answer)
DescribeStep ==
    /\ npc = "cleaned"
    /\ norm' = [norm EXCEPT !.description = extract_description(raw_text)]
    /\ npc' = "described"
    /\ UNCHANGED <<raw_text, remote, dvars, mvars>>

\* topics = extract_topics(raw_answer)
TopicsStep ==
    /\ npc = "described"
    /\ norm' = [norm EXCEPT !.topics = extract_topics(raw_text)]
    /\ npc' = "done"
    /\ UNCHANGED <<raw_text, remote, dvars, mvars>>

Normalize ==
    \/ CleanStep
    \/ DescribeStep
    \/ TopicsStep

Init == remote = <<>> /\ DInit /\ MInit /\ NInit

Next == Main

Spec == Init /\ [][Next]_vars

InitBrowser == remote \in Remotes /\ DInit /\ MInit /\ NInit

NextBrowser == Discover \/ GetTitle

SpecBrowser == InitBrowser /\ [][NextBrowser]_vars

InitNorm ==
    /\ remote = <<>>
    /\ DInit
    /\ MInit
    /\ raw_text \in Inputs
    /\ npc = "start"
    /\ norm = NoNorm

NextNorm == Normalize

SpecNorm == InitNorm /\ [][NextNorm]_vars

\* every snapshot discover_notebooks returns is one main() is given in Spec
DiscoverWithinSnapshots ==
    (dpc = "returned" /\ page_title = NoText) => result \in Snapshots(remote)

\* ------------------------------------------------- properties of main()
ReconcileStep == mpc = "loaded" /\ mpc' = "reconciled"

\* C1: after discovery and reconciliation with --sync, every snapshot entry with a url
\* has that url among the urls of the stored library, so a second run against the same
\* list finds no new entry.
C1_SecondRunFindsNothingNew ==
    (mpc = "reconciled" /\ sync) =>
        \A k \in 1..Len(snapshot) :
            snapshot[k].url # None => snapshot[k].url \in ExistingUrls(libfile)

\* C2: reconciliation keeps every record of the library under its slug, with the same
\* url, name, description and topics.
C2_ReconcilePreserves ==
    [][ReconcileStep =>
          \A k \in Keys(library) :
              /\ k \in Keys(library')
              /\ library'.notebooks[k].url = library.notebooks[k].url
              /\ library'.notebooks[k].name = library.notebooks[k].name
              /\ library'.notebooks[k].description = library.notebooks[k].description
              /\ library'.notebooks[k].topics = library.notebooks[k].topics]_vars

UrlsUnique(lib) ==
    \A j, k \in Keys(lib) :
        (j # k /\ lib.notebooks[j].url # None) =>
            lib.notebooks[j].url # lib.notebooks[k].url

\* C3: in every library reached by runs of main() from the empty library, in memory and
\* on file, no two slugs hold records with the same non-null url.
C3_UrlsUnique == UrlsUnique(library) /\ UrlsUnique(libfile)

C3_Witness ==
    /\ runs = 2
    /\ mpc = "reconciled"
    /\ new_slugs # <<>>
    /\ Cardinality(Keys(libfile)) = 2

\* C4: every record that reconciliation creates or replaces comes from a snapshot entry
\* whose url is not None and is not the url of a record the library already held.
C4_CreatesOnlyUnknownUrls ==
    [][ReconcileStep =>
          \A k \in Keys(library') :
              (k \notin Keys(library) \/ library'.notebooks[k] # library.notebooks[k]) =>
                  /\ library'.notebooks[k].url # None
                  /\ library'.notebooks[k].url \notin ExistingUrls(library)
                  /\ \E n \in 1..Len(snapshot) :
                        /\ snapshot[n].url = library'.notebooks[k].url
                        /\ snapshot[n].title = library'.notebooks[k].name]_vars

\* a known url came back under another title and with a row without a url, and the
\* library still holds its one record
C4_Witness ==
    /\ mpc = "reconciled"
    /\ sync
    /\ Cardinality(Keys(library)) = 1
    /\ \E k \in Keys(library), n \in 1..Len(snapshot) :
          /\ snapshot[n].url = library.notebooks[k].url
          /\ snapshot[n].title # library.notebooks[k].name
    /\ \E n \in 1..Len(snapshot) : snapshot[n].url = None

Failed(raw) == raw = Raised \/ raw = <<>>

\* C10: enrich_notebooks asks once per slug in list order whatever the earlier answers
\* were, leaves the record of a slug whose call raised or answered nothing as it was,
\* and counts the slugs whose call gave a non-empty answer.
C10_EnrichToleratesFailure ==
    /\ (mpc = "enriching") =>
          /\ Len(answers) = mi - 1
          /\ mi <= Len(unenriched) + 1
          /\ \A k \in 1..Len(answers) :
                /\ answers[k].slug = unenriched[k]
                /\ Failed(answers[k].raw) =>
                      library.notebooks[unenriched[k]] = libfile.notebooks[unenriched[k]]
          /\ enriched = Cardinality({ k \in 1..Len(answers) : ~Failed(answers[k].raw) })
    /\ (mpc = "done" /\ answers # <<>>) =>
          /\ Len(answers) = Len(unenriched)
          /\ \A k \in 1..Len(answers) : answers[k].slug = unenriched[k]
          /\ enriched = Cardinality({ k \in 1..Len(answers) : ~Failed(answers[k].raw) })

C10_Witness ==
    /\ mpc = "done"
    /\ Len(answers) = 2
    /\ answers[1].raw = Raised
    /\ answers[2].raw # Raised
    /\ answers[2].raw # <<>>
    /\ enriched = 1
    /\ library.notebooks[unenriched[1]].description = <<>>

\* a step of enrich_notebooks whose call gave a non-empty answer
EnrichAnswered ==
    /\ mpc = "enriching"
    /\ Len(answers') = Len(answers) + 1
    /\ ~Failed(answers'[Len(answers')].raw)

KeysAreIds(lib) == \A k \in Keys(lib) : lib.notebooks[k].id = k

\* C12: in every library reached by runs of main() from the empty library, in memory and
\* on file, every key of the mapping is the id stored in its record.
C12_KeysAreIds == KeysAreIds(library) /\ KeysAreIds(libfile)

C12_Witness ==
    /\ mpc = "idle"
    /\ Cardinality(Keys(libfile)) = 2
    /\ \E k \in Keys(libfile) : libfile.notebooks[k].description # <<>>
    /\ \E k \in Keys(libfile) : libfile.notebooks[k].name # k

\* ------------------------------------------------- properties of the browser functions
Failures == {"threw", "timeout", "not_found"}

\* C5: when discovery returns after extracting N rows, the snapshot has exactly N
\* entries in row order, entry k carries the title of extracted row k, its url is null
\* exactly when the click-resolution of row k threw, timed out or found no row, and is
\* an address of the list otherwise; a failed click-resolution never aborts the batch.
C5_PartialFailureKeepsBatch ==
    /\ abortAt \notin {"click", "wait_url"}
    /\ (dpc = "returned" /\ extracted) =>
          /\ Len(result) = Len(row_data)
          /\ Len(outcomes) = Len(row_data)
          /\ \A k \in 1..Len(row_data) :
                /\ result[k].title = row_data[k].title
                /\ (result[k].url = None) <=> (outcomes[k] \in Failures)
                /\ (outcomes[k] = "resolved") =>
                       result[k].url \in {UrlTab[j] : j \in 1..Len(remote)}

C5_Witness ==
    /\ dpc = "returned"
    /\ extracted
    /\ Len(outcomes) = 2
    /\ Len(result) = 2
    /\ outcomes[1] = "threw"
    /\ result[1].url = None
    /\ result[2].url # None

\* C6: no exception of a step after the initial navigation (the click, the wait for the
\* detail address, the return navigation, the re-render probe) propagates out of discovery.
C6_LaterFailuresDegrade ==
    abortAt \notin {"click", "wait_url", "return_goto", "rerender_probe"}

\* C7 as stated: whenever the click lookup of a record after the first is about to be
\* issued, the last re-render probe reported at least len(row_data) rows.
C7_RerenderedBeforeNext ==
    (dpc = "click" /\ i > 1) => current_rows >= Len(row_data)

\* C7 amended: ... the last re-render probe reported at least len(row_data) rows, or all
\* ten probes of the loop have been made.
C7_RerenderedOrExhausted ==
    (dpc = "click" /\ i > 1) =>
        (current_rows >= Len(row_data) \/ wait_attempt = RerenderAttempts)

C7_Witness ==
    /\ dpc = "click"
    /\ i > 1
    /\ wait_attempt > 1
    /\ wait_attempt < RerenderAttempts
    /\ current_rows >= Len(row_data)

\* C8: once launched, the context is closed exactly once on every exit of
\* discover_notebooks and get_notebook_title, and nothing is done on the page afterwards.
C8_SessionReleased ==
    /\ closes <= 1
    /\ ~opAfterClose
    /\ (session = "closed") <=> (closes = 1)
    /\ (dpc \in {"returned", "raised"} /\ session # "none") => session = "closed"
    /\ (session = "closed") => dpc \in {"returned", "raised"}

C8_Witness ==
    /\ dpc = "raised"
    /\ abortAt = "return_goto"
    /\ session = "closed"
    /\ closes = 1

\* C9: when all four hydration probes returned 0, discovery returns the empty sequence,
\* raises nothing, and runs neither the extraction script nor a click lookup.
C9_ZeroRowsReturnEmpty ==
    (starved /\ dpc \in {"finally", "returned", "raised"}) =>
        /\ exit = "return"
        /\ dpc # "raised"
        /\ result = <<>>
        /\ ~extracted
        /\ lookups = 0

C9_Witness ==
    /\ starved
    /\ dpc = "returned"
    /\ Len(remote) > 0

\* C16: the hydration poller makes at most 4 probes and goes on probing only while every
\* probe so far returned 0; the count it yields is that of its last probe, non-zero unless
\* all 4 probes returned 0; the extraction script runs if the yielded count is non-zero,
\* and otherwise discovery returns the empty list without running it.
C16_HydrationPoller ==
    /\ [](/\ attempt <= 4
          /\ (dpc = "hydrate") => (row_count = 0 /\ attempt < 4)
          /\ (dpc = "hydrated") => (row_count > 0 \/ attempt = 4))
    /\ [][/\ (dpc = "hydrate" /\ attempt' = attempt + 1) =>
                /\ row_count' = CountCells(SubSeq(remote, 1, shown'))
                /\ (row_count' > 0) => dpc' = "hydrated"
          /\ (dpc = "hydrated" /\ dpc' # "hydrated") =>
                IF row_count = 0
                THEN /\ dpc' = "finally"
                     /\ exit' = "return"
                     /\ result' = <<>>
                     /\ ~extracted'
                ELSE extracted' \/ abortAt' = "extract"]_vars

\* the third probe was the first to find rows
C16_Witness ==
    /\ dpc = "hydrated"
    /\ attempt = 3
    /\ row_count > 0

\* an upper bound on the driver calls discovery and the title check can still make
StepsLeft ==
    LET perRow == 3 + 10
        rowsAfter == (Len(row_data) - i) * perRow
        afterHydration == 2 + Len(remote) * perRow
    IN CASE dpc = "idle" -> 7 + afterHydration
         [] dpc = "goto" -> 6 + afterHydration
         [] dpc = "hydrate" -> (5 - attempt) + afterHydration
         [] dpc = "hydrated" -> afterHydration
         [] dpc = "click" -> 14 + rowsAfter
         [] dpc = "wait_url" -> 13 + rowsAfter
         [] dpc = "goback" -> 12 + rowsAfter
         [] dpc = "repoll" -> (11 - wait_attempt) + rowsAfter
         [] dpc = "t_goto" -> 5
         [] dpc = "t_title" -> 4
         [] dpc = "t_fallback" -> 4 - sel
         [] dpc = "finally" -> 1
         [] OTHER -> 0

\* C17: discovery makes at most 4 hydration probes, one click lookup for each extracted
\* row, and at most 10 re-render probes after each row, whatever the probes return; every
\* driver call brings it closer to its end, so it terminates.
C17_BoundedDiscovery ==
    /\ [](/\ attempt <= 4
          /\ wait_attempt <= 10
          /\ (dpc = "hydrate") => attempt < 4
          /\ (dpc = "repoll") => wait_attempt < 10
          /\ (dpc = "click") => lookups = i - 1
          /\ (dpc \in {"wait_url", "goback", "repoll"}) => lookups = i
          /\ (dpc = "returned" /\ extracted) => lookups = Len(row_data)
          /\ StepsLeft >= 0)
    /\ [][StepsLeft' < StepsLeft]_vars

\* the list never came back after the last of two rows: all ten probes were made
C17_Witness ==
    /\ dpc = "returned"
    /\ extracted
    /\ lookups = 2
    /\ wait_attempt = 10
    /\ current_rows < Len(row_data)

\* the rows of the list whose trimmed first-column text is the title
RowsTitled(t) == { j \in 1..Len(remote) : remote[j] # <<>> /\ Strip(remote[j][1], White) = t }

\* C18: every url in a returned snapshot is the address of the first row of the list
\* whose trimmed first-column text equals the entry's title, so two entries with the same
\* title carry the same url; an entry whose title equals no first-column text, also one
\* that is part of a longer first-column text, has no url.
C18_FirstExactMatch ==
    (dpc = "returned" /\ extracted) =>
        \A k \in 1..Len(result) :
            /\ (RowsTitled(result[k].title) = {}) => result[k].url = None
            /\ (result[k].url # None) =>
                   result[k].url = UrlTab[Min(RowsTitled(result[k].title))]

\* two rows with the same title: both entries carry the address of the first
C18_Witness ==
    /\ dpc = "returned"
    /\ extracted
    /\ Len(result) = 2
    /\ Cardinality(RowsTitled(<<"A", " ", "b">>)) = 2
    /\ result[1].url = UrlTab[1]
    /\ result[2].url = UrlTab[1]

\* a click lookup on the fully rendered list, for a row extracted from the fully
\* rendered list, that recorded an outcome for the row
LookupOnFullList ==
    /\ dpc = "click"
    /\ row_data = ExtractRows(remote)
    /\ shown' = Len(remote)
    /\ Len(outcomes') = Len(outcomes) + 1

\* C22: on the fully rendered, unchanged list the click lookup finds a row for every row
\* the extractor kept: its script never returns false there.
C22_ExtractedRowsAreFound ==
    [][LookupOnFullList => outcomes'[Len(outcomes')] # "not_found"]_vars

\* the slugs enrich_notebooks was given
Targets == { unenriched[n] : n \in 1..Len(unenriched) }

\* C19: the slugs passed to enrich_notebooks are exactly those of the records that had an
\* empty description and a url when the pass began; no other record is asked about, and
\* a record that had a description keeps it and its topics, also under --enrich.
C19_EnrichOnlyLacking ==
    (mpc = "enriching") =>
        /\ Keys(library) = Keys(libfile)
        /\ \A k \in Keys(libfile) :
              (k \in Targets) <=>
                  (libfile.notebooks[k].description = <<>> /\ libfile.notebooks[k].url # None)
        /\ \A n \in 1..Len(answers) :
              libfile.notebooks[answers[n].slug].description = <<>>
        /\ \A k \in Keys(libfile) :
              (libfile.notebooks[k].description # <<>>) =>
                  /\ library.notebooks[k].description = libfile.notebooks[k].description
                  /\ library.notebooks[k].topics = libfile.notebooks[k].topics

\* a pass forced by --enrich over a library that holds a described record
C19_Witness ==
    /\ mpc = "enriching"
    /\ enrich_flag
    /\ answers # <<>>
    /\ \E k \in Keys(libfile) : libfile.notebooks[k].description # <<>>

\* the answers of the pass so far that enrich_notebooks counted as enriched
Counted == { n \in 1..Len(answers) : Answered(answers[n].raw) }

\* C21: every record enrich_notebooks counted as enriched has a non-empty description and
\* is not among the records the next pass would select as lacking enrichment.
C21_CountedIsDescribed ==
    (mpc = "enriching") =>
        /\ enriched = Cardinality(Counted)
        /\ \A n \in Counted :
              /\ Truthy(library.notebooks[answers[n].slug].description)
              /\ \A q \in 1..Len(Unenriched(library)) :
                    Unenriched(library)[q] # answers[n].slug

\* C20: get_notebook_title returns None or a non-empty title.
C20_NoneOrTitle ==
    (dpc = "returned" /\ page_title # NoText) => (result = NoText \/ result # <<>>)

\* ------------------------------------------------- properties of the normalizer
\* C13: the description the normalizer produces is at most 500 characters long.
C13_DescriptionWithinLimit ==
    (npc \in {"described", "done"}) => Len(norm.description) <= 500

\* the position at which a slug first occurs in a list, 0 when it does not
FirstAt(list, e) ==
    IF \E k \in 1..Len(list) : list[k] = e
    THEN Min({ k \in 1..Len(list) : list[k] = e })
    ELSE 0

\* ^[a-z0-9]+(-[a-z0-9]+)*$
WellFormedSlug(e) ==
    /\ e # <<>>
    /\ \A k \in 1..Len(e) : e[k] \in SlugChars
    /\ e[1] # "-"
    /\ e[Len(e)] # "-"
    /\ \A k \in 1..(Len(e) - 1) : ~(e[k] = "-" /\ e[k + 1] = "-")

\* C14: the topic list the normalizer produces has at most 15 entries and no duplicate,
\* lists the slugs of the headers in the order they are first seen in the cleaned text
\* (the first 15 of them), and each entry is longer than 2 characters and is made of
\* non-empty runs of [a-z0-9] separated by single hyphens.
C14_TopicListInvariants ==
    (npc = "done") =>
        LET out == norm.topics
            seen == TopicsFrom(norm.cleaned, 1)
            distinct == { seen[k] : k \in 1..Len(seen) }
        IN /\ Len(out) <= 15
           /\ \A j, k \in 1..Len(out) : j # k => out[j] # out[k]
           /\ \A k \in 1..Len(out) : Len(out[k]) > 2 /\ WellFormedSlug(out[k])
           /\ \A k \in 1..Len(out) : FirstAt(seen, out[k]) # 0
           /\ \A j, k \in 1..Len(out) :
                 j < k => FirstAt(seen, out[j]) < FirstAt(seen, out[k])
           /\ \A e \in distinct :
                 FirstAt(out, e) = 0 =>
                     /\ Len(out) = 15
                     /\ FirstAt(seen, e) > FirstAt(seen, out[15])

\* sixteen different headers: the cap acts
C14_Witness ==
    /\ npc = "done"
    /\ Len(norm.topics) = 15
    /\ raw_text = TopicsA \o TopicsB

\* the length of the longest common prefix of two texts
CommonPrefix(a, b) ==
    LET n == IF Len(a) < Len(b) THEN Len(a) ELSE Len(b)
    IN Min({ k \in 1..n : a[k] # b[k] } \cup {n + 1}) - 1

\* a is what is left of b after some of its characters are taken out
RECURSIVE IsSubsequence(_, _)
IsSubsequence(a, b) ==
    IF a = <<>> THEN TRUE
    ELSE IF b = <<>> THEN FALSE
    ELSE LET n == CommonPrefix(a, b)
         IN IF n > 0 THEN IsSubsequence(From(a, n + 1), From(b, n + 1))
            ELSE IsSubsequence(a, Tail(b))

\* the markers [n] of a text, as <<first position, last position>>
CitationSpans(s) ==
    { be \in { k \in 1..Len(s) : s[k] = "[" } \X { k \in 1..Len(s) : s[k] = "]" } :
        /\ be[2] > be[1] + 1
        /\ \A k \in (be[1] + 1)..(be[2] - 1) : s[k] \in Digits }

\* the text without the characters of its markers
OutsideCitations(s) ==
    LET spans == CitationSpans(s)
    IN SelectSeq([k \in 1..Len(s) |->
                     IF \E be \in spans : be[1] <= k /\ k <= be[2] THEN "" ELSE s[k]],
                 LAMBDA c : c # "")

\* a run of one or two digits with no digit next to it starts at position p
ShortTokenAt(s, p) ==
    /\ s[p] \in Digits
    /\ p > 1 => s[p - 1] \notin Digits
    /\ \/ p = Len(s)
       \/ s[p + 1] \notin Digits
       \/ s[p + 1] \in Digits /\ (p + 1 = Len(s) \/ s[p + 2] \notin Digits)

CitationExample == <<"S", "e", "e", " ", "[", "1", "2", "]", " ", "a", "n", "d", " ", "i", "t", "e", "m", " ", "7", " ", "f", "o", "r", " ", "d", "e", "t", "a", "i", "l", "s">>
CitationExampleCleaned == <<"S", "e", "e", " ", " ", "a", "n", "d", " ", "i", "t", "e", "m", " ", " ", "f", "o", "r", " ", "d", "e", "t", "a", "i", "l", "s">>

\* C15: no character of a marker [n] of the raw answer is left in the cleaned text (what
\* is left comes from the characters outside the markers, in their order), no run of
\* one or two digits standing alone is left, and "See [12] and item 7 for details"
\* becomes "See  and item  for details".
C15_CitationsBeforeNumbers ==
    (npc # "start") =>
        /\ IsSubsequence(norm.cleaned, OutsideCitations(raw_text))
        /\ \A p \in 1..Len(norm.cleaned) : ~ShortTokenAt(norm.cleaned, p)
        /\ raw_text = CitationExample => norm.cleaned = CitationExampleCleaned

C15_Witness ==
    /\ npc = "cleaned"
    /\ raw_text = CitationExample \o <<"[", "1", "2", "]">>
    /\ norm.cleaned = CitationExampleCleaned

====
